---- MODULE Spec2Model ----
(***************************************************************************)
(* reach-tools: normalisation of an American Whitewater reach document     *)
(* (notebook cells that prototype Reach.from_aw_json) and the publish      *)
(* notebook that derives the field schema, creates the hosted feature      *)
(* service and uploads the features in chunks.                             *)
(***************************************************************************)
EXTENDS Integers, Sequences, FiniteSets, TLC

(***************************************************************************)
(* Python values.  Every value carries its dynamic type in t, so that      *)
(* isinstance(v, str) and dict.get are computed and not assumed.           *)
(***************************************************************************)
None == [t |-> "None"]
PyStr(s) == [t |-> "str", v |-> s]
PyInt(i) == [t |-> "int", v |-> i]
PyDict(f) == [t |-> "dict", v |-> f]
Raise(kind) == [t |-> "raise", v |-> kind]

IsStr(x) == x.t = "str"
IsDict(x) == x.t = "dict"
IsRaise(x) == x.t = "raise"

\* d[k] on a dict raises KeyError for an absent key (not what the code calls)
GetStrict(x, k) ==
    IF IsRaise(x) THEN x
    ELSE IF ~IsDict(x) THEN Raise("TypeError")
    ELSE IF k \in DOMAIN x.v THEN x.v[k] ELSE Raise("KeyError")

\* x.get(k): the value, None for an absent key, AttributeError when x is no
\* dict (None.get, "text".get); an exception already raised propagates
Get(x, k) ==
    IF IsRaise(x) THEN x
    ELSE IF ~IsDict(x) THEN Raise("AttributeError")
    ELSE IF k \in DOMAIN x.v THEN x.v[k] ELSE None

(***************************************************************************)
(* arcgis.geometry.Geometry(geojson): a GeoJSON LineString becomes a       *)
(* polyline whose single path holds the coordinates in their order; the    *)
(* constructor accepts None and builds an empty geometry.                  *)
(***************************************************************************)
\* wkid 0: no spatial reference
EmptyGeometry == [t |-> "Geometry", paths |-> <<>>, wkid |-> 0]

\* a conversion that takes each position as (latitude, longitude)
GeometrySwapped(geojson) ==
    IF IsRaise(geojson) THEN geojson
    ELSE IF geojson = None THEN EmptyGeometry
    ELSE IF ~IsDict(geojson) THEN Raise("Exception")
    ELSE [t |-> "Geometry",
          paths |-> <<[i \in 1..Len(geojson.v.coordinates) |->
                         <<geojson.v.coordinates[i][2], geojson.v.coordinates[i][1]>>]>>,
          wkid |-> 4326]

Geometry(geojson) ==
    IF IsRaise(geojson) THEN geojson
    ELSE IF geojson = None THEN EmptyGeometry
    ELSE IF ~IsDict(geojson) THEN Raise("Exception")
    ELSE [t |-> "Geometry", paths |-> <<geojson.v.coordinates>>, wkid |-> 4326]

(***************************************************************************)
(* Normalisation of one document, as the notebook prototypes it.           *)
(***************************************************************************)
json_info(aw_json) ==
    Get(Get(Get(aw_json, "CContainerViewJSON_view"), "CRiverMainGadgetJSON_main"), "info")

from_aw_json(aw_json) ==
    LET info == json_info(aw_json)
        reach_id == Get(info, "id")
        river == Get(info, "river")
        name == Get(info, "section")
        description == Get(info, "description_md")
        geojson == Get(info, "geom")
        geometry == Geometry(geojson)
    IN  IF IsRaise(reach_id) THEN reach_id
        ELSE IF IsRaise(river) THEN river
        ELSE IF IsRaise(name) THEN name
        ELSE IF IsRaise(description) THEN description
        ELSE IF IsRaise(geometry) THEN geometry
        ELSE [t |-> "Reach", reach_id |-> reach_id, river |-> river, name |-> name,
              description |-> description, geometry |-> geometry]

IsReach(r) == r.t = "Reach"

\* Reach.attributes: the flat mapping for tabular export, keyed by stable names
attributes(r) ==
    [reach_id |-> r.reach_id, river |-> r.river, section |-> r.name,
     description |-> r.description]

\* Reach.line_feature.as_dict
line_feature(r) == [attributes |-> attributes(r), geometry |-> r.geometry]

(***************************************************************************)
(* val * 1.1 in IEEE-754 double precision, then math.ceil.  1.1 is the     *)
(* double 0x1.199999999999ap+0; the product of its 53-bit significand      *)
(* with val is formed exactly on hexadecimal digits, rounded to 53 bits    *)
(* to nearest, ties to even, and the ceiling is read off the bits.         *)
(***************************************************************************)
\* significand of the double 1.1, 0x1199999999999A, least significant digit first
Mant11 == <<10, 9, 9, 9, 9, 9, 9, 9, 9, 9, 9, 9, 1, 1>>

RECURSIVE MulDigits(_, _, _, _)
MulDigits(ds, v, i, carry) ==
    IF i > Len(ds)
    THEN IF carry = 0 THEN <<>>
         ELSE <<carry % 16>> \o MulDigits(ds, v, i, carry \div 16)
    ELSE LET prod == ds[i] * v + carry
         IN  <<prod % 16>> \o MulDigits(ds, v, i + 1, prod \div 16)

HexBits(d) == <<d % 2, (d \div 2) % 2, (d \div 4) % 2, (d \div 8) % 2>>

RECURSIVE ToBits(_)
ToBits(ds) == IF ds = <<>> THEN <<>> ELSE HexBits(Head(ds)) \o ToBits(Tail(ds))

RECURSIVE Strip(_)
Strip(bs) ==
    IF bs # <<>> /\ bs[Len(bs)] = 0 THEN Strip(SubSeq(bs, 1, Len(bs) - 1)) ELSE bs

RECURSIVE Incr(_)
Incr(bs) ==
    IF bs = <<>> THEN <<1>>
    ELSE IF Head(bs) = 0 THEN <<1>> \o Tail(bs)
    ELSE <<0>> \o Incr(Tail(bs))

RECURSIVE BitsToInt(_)
BitsToInt(bs) == IF bs = <<>> THEN 0 ELSE Head(bs) + 2 * BitsToInt(Tail(bs))

AnySet(bs) == \E i \in 1..Len(bs) : bs[i] = 1

\* the double nearest to v * 1.1 (v >= 1): significand bits, least significant
\* first, and the binary exponent of the least significant bit
FloatMul11(v) ==
    LET p == Strip(ToBits(MulDigits(Mant11, v, 1, 0)))
        L == Len(p)
        s == IF L > 53 THEN L - 53 ELSE 0
        q == SubSeq(p, s + 1, L)
        r == SubSeq(p, 1, s)
        up == s > 0 /\ r[s] = 1 /\ (AnySet(SubSeq(r, 1, s - 1)) \/ q[1] = 1)
    IN  [sig |-> IF up THEN Incr(q) ELSE q, exp |-> s - 52]

\* math.ceil of a positive double
Ceil(f) ==
    LET n == -f.exp
        m == IF n < Len(f.sig) THEN n ELSE Len(f.sig)
        ip == BitsToInt(SubSeq(f.sig, n + 1, Len(f.sig)))
    IN  IF AnySet(SubSeq(f.sig, 1, m)) THEN ip + 1 ELSE ip

\* the exact ceiling of val * 11 / 10 (what the float product does not always give)
CeilExact11(val) == (val * 11 + 9) \div 10

\* lambda val: math.ceil(val * 1.1)
CeilMul11(val) == IF val = 0 THEN 0 ELSE Ceil(FloatMul11(val))

(***************************************************************************)
(* Schema length derivation (publish notebook, cell 6).                    *)
(***************************************************************************)
Max(S) == CHOOSE m \in S : \A x \in S : x <= m
Min(S) == CHOOSE m \in S : \A x \in S : m <= x

\* a row that gives a value that is not a string the length 0
LenRowZero(attrs) ==
    [k \in DOMAIN attrs |-> PyInt(IF IsStr(attrs[k]) THEN Len(attrs[k].v) ELSE 0)]

\* {k: len(v) if isinstance(v, str) else None for k, v in attributes.items()}
LenRow(attrs) ==
    [k \in DOMAIN attrs |-> IF IsStr(attrs[k]) THEN PyInt(Len(attrs[k].v)) ELSE None]

\* a table that holds the row of the first Reach only
dict_lst_first(reaches) ==
    [i \in 1..(IF Len(reaches) > 1 THEN 1 ELSE Len(reaches)) |->
        LenRow(attributes(reaches[i]))]

\* one row per Reach of the collection
dict_lst_of(reaches) == [i \in 1..Len(reaches) |-> LenRow(attributes(reaches[i]))]

\* the non-null lengths of column k of DataFrame.from_records(rows)
Column(rows, k) ==
    {rows[i][k].v : i \in {j \in 1..Len(rows) : k \in DOMAIN rows[j] /\ rows[j][k] # None}}

\* the aggregate DataFrame.max() takes over a column
ColumnMin(rows, k) == Min(Column(rows, k))
ColumnMax(rows, k) == Max(Column(rows, k))

\* .max().dropna().astype(int).apply(lambda val: math.ceil(val * 1.1)).to_dict()
len_dict_of(rows) ==
    LET cols == UNION {DOMAIN rows[i] : i \in 1..Len(rows)}
        kept == {k \in cols : Column(rows, k) # {}}
    IN  [k \in kept |-> CeilMul11(ColumnMax(rows, k))]

(***************************************************************************)
(* Field list of the layer definition (publish notebook, cell 9).          *)
(***************************************************************************)
\* the order of the keys of Reach.attributes
AttrOrder == <<"reach_id", "river", "section", "description">>

FieldType(v) == IF v.t = "int" THEN "esriFieldTypeInteger" ELSE "esriFieldTypeString"

\* the order in which an attribute mapping holds its keys: a source that
\* defines OBJECTID has it in front, a further attribute comes last
ColumnOrder == <<"OBJECTID">> \o AttrOrder \o <<"difficulty">>

\* list(attrs.keys())
KeysOf(attrs) == LET Has(k) == k \in DOMAIN attrs IN SelectSeq(ColumnOrder, Has)

\* FeatureSet.from_dict({"features": feature_lst}).fields: the arcgis library
\* infers one field per attribute of the first feature, typed by the value.
\* with_oid says whether the set reports an object-id field, typed
\* esriFieldTypeOID: the attribute named OBJECTID when the data has one, a
\* field of its own in front otherwise.  Without it an attribute named
\* OBJECTID is a field like any other, typed by its value.
fs_prop_fields(features, with_oid) ==
    IF features = <<>> THEN <<>>
    ELSE LET attrs == features[1].attributes
             keys == KeysOf(attrs)
         IN  (IF with_oid /\ "OBJECTID" \notin DOMAIN attrs
              THEN <<[name |-> "OBJECTID", type |-> "esriFieldTypeOID",
                      alias |-> "OBJECTID"]>>
              ELSE <<>>)
             \o [i \in 1..Len(keys) |->
                    [name |-> keys[i],
                     type |-> IF with_oid /\ keys[i] = "OBJECTID"
                              THEN "esriFieldTypeOID"
                              ELSE FieldType(attrs[keys[i]]),
                     alias |-> keys[i]]]

\* add_fld_meta writes the length into the dict it is given and returns that
\* dict: the value of the argument, and of the result, after the call
add_fld_meta(fld, lens) ==
    IF fld.name \in DOMAIN lens
    THEN [k \in DOMAIN fld \cup {"length"} |-> IF k = "length" THEN lens[fld.name] ELSE fld[k]]
    ELSE fld

oid_fld ==
    [name |-> "OBJECTID", type |-> "esriFieldTypeOID", actualType |-> "int",
     alias |-> "OBJECTID", sqlType |-> "sqlTypeInteger", nullable |-> FALSE,
     editable |-> FALSE]

\* [add_fld_meta(fld) for fld in fs_prop.fields if fld['type'] != 'esriFieldTypeOID']
DataFields(fs_flds, lens) ==
    LET NotOid(fld) == fld.type # "esriFieldTypeOID"
        kept == SelectSeq(fs_flds, NotOid)
    IN  [i \in 1..Len(kept) |-> add_fld_meta(kept[i], lens)]

\* a list that has the OBJECTID definition in front
fields_oid_first(fs_flds, lens) == <<oid_fld>> \o DataFields(fs_flds, lens)
\* fs_prop.fields after the comprehension: add_fld_meta has written into
\* every element it was called on, the object-id fields are as they were
fs_prop_fields_after(fs_flds, lens) ==
    [i \in 1..Len(fs_flds) |->
        IF fs_flds[i].type # "esriFieldTypeOID"
        THEN add_fld_meta(fs_flds[i], lens) ELSE fs_flds[i]]

\* fields.append(oid_fld)
fields_of(fs_flds, lens) == Append(DataFields(fs_flds, lens), oid_fld)

service_name == "river_reaches"

lyr_def_of(flds) ==
    [type |-> "Feature Layer", name |-> service_name,
     geometryType |-> "esriGeometryPolyline", objectIdField |-> "OBJECTID",
     wkid |-> 4326, fields |-> flds]

(***************************************************************************)
(* Chunking of the features (publish notebook, cell 16).                   *)
(***************************************************************************)
\* a range that also yields its stop
RECURSIVE RangeInclusive(_, _, _)
RangeInclusive(start, stop, step) ==
    IF start > stop THEN <<>> ELSE <<start>> \o RangeInclusive(start + step, stop, step)

\* range(start, stop, step) for a positive step
RECURSIVE Range(_, _, _)
Range(start, stop, step) ==
    IF start >= stop THEN <<>> ELSE <<start>> \o Range(start + step, stop, step)

\* a slice that stops one element short of hi
SliceShort(lst, lo, hi) == SubSeq(lst, lo + 1, IF hi - 1 < Len(lst) THEN hi - 1 ELSE Len(lst))

\* lst[lo:hi] for 0 <= lo
Slice(lst, lo, hi) == SubSeq(lst, lo + 1, IF hi < Len(lst) THEN hi ELSE Len(lst))

\* [feature_lst[idx: idx + chunk_size] for idx in range(0, len(feature_lst), chunk_size)]
upload_chunks_of(lst, size) ==
    LET idxs == Range(0, Len(lst), size)
    IN  [i \in 1..Len(idxs) |-> Slice(lst, idxs[i], idxs[i] + size)]

RECURSIVE Concat(_)
Concat(ss) == IF ss = <<>> THEN <<>> ELSE Head(ss) \o Concat(Tail(ss))

(***************************************************************************)
(* Input documents.  Coordinates are in tenths of a degree.                *)
(***************************************************************************)
MaxFiles == 3
MaxRecords == 5
MaxChunk == 3
MaxRerun == 2
MaxRuns == 2
\* the download loop is run with a small max_fail and max_range
MaxFail == 2
MaxRange == 5

InfoKeys == {"id", "river", "section", "description_md", "geom"}
OptionalKeys == {"river", "section", "description_md"}

LineString ==
    PyDict([type |-> PyStr("LineString"),
            coordinates |-> <<<<-1050, 390>>, <<-1051, 391>>>>])

InfoFull(idv, section) ==
    [id |-> idv, river |-> PyStr("Test River"), section |-> PyStr(section),
     description_md |-> PyStr("Class III run."), geom |-> LineString]

Restrict(f, S) == [k \in S |-> f[k]]
Without(f, k) == Restrict(f, DOMAIN f \ {k})
EmptyMap == [k \in {} |-> None]

Gadget(main) == PyDict([CContainerViewJSON_view |-> PyDict([CRiverMainGadgetJSON_main |-> main])])
Doc(info) == Gadget(PyDict([info |-> info]))

\* documents whose required keys are absent or wrongly shaped above the info block
NoInfoDocs ==
    {Gadget(PyDict(EmptyMap)), Doc(None), Doc(PyStr("n/a")),
     PyDict([CContainerViewJSON_view |-> PyDict(EmptyMap)]), PyDict(EmptyMap)}

\* every subset of the info keys, with the identifier rightly or wrongly shaped
InfoDocs ==
    {Doc(PyDict(Restrict(InfoFull(idv, "Lower Gorge"), S))) :
        S \in SUBSET InfoKeys, idv \in {PyInt(42), PyStr("forty-two")}}

\* a line whose coordinates are Web Mercator metres, and says so (GeoJSON crs)
LineString3857 ==
    PyDict([type |-> PyStr("LineString"),
            coordinates |-> <<<<-11688546, 4721671>>, <<-11699678, 4736122>>>>,
            crs |-> PyStr("EPSG:3857")])

OtherReferenceDocs ==
    {Doc(PyDict([InfoFull(PyInt(42), "Lower Gorge") EXCEPT !.geom = LineString3857]))}

NormDocs == InfoDocs \cup NoInfoDocs \cup OtherReferenceDocs

Sections ==
    {"", "Gore Run", "Upper Box Canyon Run",
     "Confluence of North Fork to the Highway 50 Bridge."}

\* the collections the publish notebook is run on
PipeDocs ==
    {Doc(PyDict(InfoFull(PyInt(42), s))) : s \in Sections}
    \cup {Doc(PyDict(Without(InfoFull(PyInt(42), "Gore Run"), "description_md"))),
          Gadget(PyDict(EmptyMap))}

BatchDocs ==
    {Doc(PyDict(InfoFull(PyInt(42), "Gore Run"))),
     Doc(PyDict(InfoFull(PyInt(43), "Upper Box Canyon Run")))}

SeqsUpTo(S, n) == UNION {[1..m -> S] : m \in 0..n}

InputCollections == SeqsUpTo(PipeDocs, MaxFiles) \cup SeqsUpTo(BatchDocs, MaxRecords)

\* the collections of a notebook that is run again
RerunCollections == SeqsUpTo(BatchDocs, MaxRerun)

(***************************************************************************)
(* State.                                                                  *)
(***************************************************************************)
VARIABLES
    \* the normalisation cells: what the file at pth holds, the name aw_json,
    \* the other names the cells bind (and the exception a cell raised), and
    \* the cell about to run
    json_fl, aw_json, nb, npc,
    \* the publish notebook: the raw files on disk in file-name order, the
    \* destination's content, the cell about to run, and the notebook's names
    raw_dir, overwrite, remote, pc, error, raw_json_lst, dict_lst, len_dict,
    feature_lst, fs_fields, fields, lyr_def, new_svc_itm, lyr, chunk_size,
    upload_chunks, chnk, n_derive,
    \* the number of the run of the notebook, and what the run before it left
    \* in the destination: <<records uploaded, records of that run>>
    run, left_behind,
    \* schema derivation on a list of attribute mappings: the mappings, the
    \* length table, fs_prop.fields and fields as cell 9 leaves them, the
    \* exception raised ("" for none), and the position
    rec_lst, rec_len_dict, rec_fs_fields, rec_fields, rec_error, rpc,
    \* the download notebook: the files of dir_raw_aw (what the file of each
    \* reach id holds), the names of the cell, the position in the loop, and
    \* the lines the cell has logged, one per reach id gone through
    dir_raw_aw, existing_reach_id_lst, reach_id, fail_count, max_fail, max_range,
    dpc, d_log

norm_vars == <<json_fl, aw_json, nb, npc>>
gis_vars == <<remote, new_svc_itm, lyr>>
schema_vars == <<dict_lst, len_dict, n_derive, fs_fields, fields, lyr_def>>
chunk_vars == <<chunk_size, upload_chunks, chnk>>
run_vars == <<run, left_behind>>
rec_vars == <<rec_lst, rec_len_dict, rec_fs_fields, rec_fields, rec_error, rpc>>
down_vars ==
    <<dir_raw_aw, existing_reach_id_lst, reach_id, fail_count, max_fail, max_range,
      dpc, d_log>>
pipe_vars ==
    <<raw_dir, overwrite, pc, error, raw_json_lst, feature_lst, gis_vars,
      schema_vars, chunk_vars, run_vars>>
vars == <<norm_vars, pipe_vars, rec_vars, down_vars>>

\* a service left in the destination by an earlier run
OldItem ==
    [name |-> service_name,
     layers |-> <<[def |-> lyr_def_of(<<oid_fld>>), features |-> <<>>]>>]

\* a name no cell has bound yet
Unbound == [t |-> "unbound"]

\* the names of the normalisation cells, none bound, no exception raised
NoNames ==
    [json_info |-> Unbound, reach_id |-> Unbound, river |-> Unbound,
     name |-> Unbound, description |-> Unbound, geojson |-> Unbound,
     geometry |-> Unbound, esri_json |-> Unbound, raised |-> ""]

NormIdle == json_fl = None /\ aw_json = Unbound /\ nb = NoNames /\ npc = "idle"

PipeStart(dir, ow, rem, at) ==
    /\ raw_dir = dir /\ overwrite = ow /\ remote = rem /\ pc = at /\ error = ""
    /\ raw_json_lst = <<>> /\ dict_lst = <<>> /\ len_dict = <<>>
    /\ feature_lst = <<>> /\ fs_fields = <<>> /\ fields = <<>> /\ lyr_def = <<>>
    /\ new_svc_itm = 0 /\ lyr = 0 /\ chunk_size = 0 /\ upload_chunks = <<>>
    /\ chnk = 0 /\ n_derive = 0
    /\ run = 1 /\ left_behind = <<0, 0>>

RecIdle ==
    /\ rec_lst = <<>> /\ rec_len_dict = <<>> /\ rec_fs_fields = <<>>
    /\ rec_fields = <<>> /\ rec_error = "" /\ rpc = "idle"

DownIdle ==
    /\ dir_raw_aw = <<>> /\ existing_reach_id_lst = {} /\ reach_id = 0
    /\ fail_count = 0 /\ max_fail = 0 /\ max_range = 0 /\ dpc = "idle" /\ d_log = <<>>

(***************************************************************************)
(* Normalisation of the document of one file, cell by cell.                *)
(***************************************************************************)
\* a file that does not hold JSON, and a path with no file
NotJson == [t |-> "text", v |-> "{not json"]
NoFile == [t |-> "nofile"]
NormFiles == NormDocs \cup {NotJson, NoFile}

\* with open(pth, 'r') as json_fl: aw_json = json.load(json_fl)
load(fl) ==
    IF fl = NoFile THEN Raise("FileNotFoundError")
    ELSE IF fl = NotJson THEN Raise("JSONDecodeError")
    ELSE fl

\* geometry.JSON: the paths and the spatial reference of the geometry as JSON
GeometryJSON(g) ==
    [t |-> "json", paths |-> g.paths, spatialReference |-> [wkid |-> g.wkid]]

InitNorm ==
    /\ json_fl \in NormFiles
    /\ aw_json = Unbound /\ nb = NoNames /\ npc = "cell58"
    /\ PipeStart(<<>>, TRUE, <<>>, "idle")
    /\ RecIdle
    /\ DownIdle

\* the cell stops at the statement that raises: the names bound before it
\* stay bound, and the cells after it are not run
Raised(names, exc) == [names EXCEPT !.raised = exc.v]

\* cell 4f32b3d3: load the file, json_info, reach_id, river, name, description
ReadAttributes ==
    /\ npc = "cell58"
    /\ LET doc == load(json_fl)
           info == json_info(doc)
           id == Get(info, "id")
       IN  IF IsRaise(doc)
           THEN aw_json' = aw_json /\ nb' = Raised(nb, doc) /\ npc' = "error"
           ELSE IF IsRaise(info)
           THEN aw_json' = doc /\ nb' = Raised(nb, info) /\ npc' = "error"
           ELSE IF IsRaise(id)
           THEN /\ aw_json' = doc
                /\ nb' = Raised([nb EXCEPT !.json_info = info], id)
                /\ npc' = "error"
           ELSE /\ aw_json' = doc
                /\ nb' = [nb EXCEPT !.json_info = info,
                                    !.reach_id = id,
                                    !.river = Get(info, "river"),
                                    !.name = Get(info, "section"),
                                    !.description = Get(info, "description_md")]
                /\ npc' = "cell67"
    /\ UNCHANGED <<json_fl, pipe_vars, rec_vars, down_vars>>

\* cell 94a3a1b6: geojson = json_info.get('geom')
ReadGeojson ==
    /\ npc = "cell67"
    /\ LET geom == Get(nb.json_info, "geom")
       IN  IF IsRaise(geom)
           THEN nb' = Raised(nb, geom) /\ npc' = "error"
           ELSE nb' = [nb EXCEPT !.geojson = geom] /\ npc' = "cell68"
    /\ UNCHANGED <<json_fl, aw_json, pipe_vars, rec_vars, down_vars>>

\* cell ff82c62c: geometry = Geometry(geojson)
BuildGeometry ==
    /\ npc = "cell68"
    /\ LET g == Geometry(nb.geojson)
       IN  IF IsRaise(g)
           THEN nb' = Raised(nb, g) /\ npc' = "error"
           ELSE nb' = [nb EXCEPT !.geometry = g] /\ npc' = "cell70"
    /\ UNCHANGED <<json_fl, aw_json, pipe_vars, rec_vars, down_vars>>

\* cell 6c018d5a: esri_json = geometry.JSON
ToEsriJson ==
    /\ npc = "cell70"
    /\ nb' = [nb EXCEPT !.esri_json = GeometryJSON(nb.geometry)]
    /\ npc' = "done"
    /\ UNCHANGED <<json_fl, aw_json, pipe_vars, rec_vars, down_vars>>

NextNorm ==
    \/ ReadAttributes
    \/ ReadGeojson
    \/ BuildGeometry
    \/ ToEsriJson

SpecNorm == InitNorm /\ [][NextNorm]_vars

\* the cells have run to the last one, or one of them has raised
NormEnded == npc \in {"done", "error"}

\* what normalising the file has given when the cells have ended: the
\* exception a cell raised, or the Reach of the names the cells have bound
reach ==
    IF nb.raised # "" THEN Raise(nb.raised)
    ELSE [t |-> "Reach", reach_id |-> nb.reach_id, river |-> nb.river,
          name |-> nb.name, description |-> nb.description,
          geometry |-> nb.geometry]

(***************************************************************************)
(* The publish notebook, cell by cell.                                     *)
(***************************************************************************)
Init ==
    /\ NormIdle
    /\ RecIdle
    /\ DownIdle
    /\ \E dir \in InputCollections, ow \in BOOLEAN, rem \in {<<>>, <<OldItem>>} :
          PipeStart(dir, ow, rem, "files")

\* a comprehension that goes through the files from the last to the first
NormalizedReversed(files) ==
    [i \in 1..Len(files) |-> from_aw_json(files[Len(files) + 1 - i])]
\* Reach.from_aw_json(reach_json) for reach_json in raw_json_lst
Normalized(files) == [i \in 1..Len(files) |-> from_aw_json(files[i])]
Failed(rs) == {i \in 1..Len(rs) : IsRaise(rs[i])}

\* cell 5: raw_json_lst = sorted(list(raw_dir_pth.glob("aw_*.json")))
ListFiles ==
    /\ pc = "files"
    /\ raw_json_lst' = raw_dir
    /\ pc' = "len_dict"
    /\ UNCHANGED <<norm_vars, rec_vars, down_vars, run_vars, raw_dir, overwrite, error, feature_lst, gis_vars,
                   schema_vars, chunk_vars>>

\* cell 6: dict_lst and len_dict; an exception of a normalisation ends the run
DeriveLengths ==
    /\ pc = "len_dict"
    /\ LET rs == Normalized(raw_json_lst)
       IN  IF Failed(rs) # {}
           THEN /\ pc' = "error"
                /\ error' = rs[Min(Failed(rs))].v
                /\ UNCHANGED <<dict_lst, len_dict, n_derive>>
           ELSE /\ dict_lst' = dict_lst_of(rs)
                /\ len_dict' = len_dict_of(dict_lst_of(rs))
                /\ n_derive' = n_derive + 1
                /\ pc' = "feature_lst"
                /\ error' = error
    /\ UNCHANGED <<norm_vars, rec_vars, down_vars, run_vars, raw_dir, overwrite, raw_json_lst, feature_lst,
                   gis_vars, fs_fields, fields, lyr_def, chunk_vars>>

\* cell 7: feature_lst, from a second normalisation of every file
BuildFeatures ==
    /\ pc = "feature_lst"
    /\ LET rs == Normalized(raw_json_lst)
       IN  IF Failed(rs) # {}
           THEN /\ pc' = "error"
                /\ error' = rs[Min(Failed(rs))].v
                /\ feature_lst' = feature_lst
           ELSE /\ feature_lst' = [i \in 1..Len(rs) |-> line_feature(rs[i])]
                /\ pc' = "fields"
                /\ error' = error
    /\ UNCHANGED <<norm_vars, rec_vars, down_vars, run_vars, raw_dir, overwrite, raw_json_lst, gis_vars,
                   schema_vars, chunk_vars>>

\* cell 9: fs_prop, fields and lyr_def
BuildFields ==
    /\ pc = "fields"
    /\ \E with_oid \in BOOLEAN :
          /\ fs_fields' = fs_prop_fields_after(fs_prop_fields(feature_lst, with_oid), len_dict)
          /\ fields' = fields_of(fs_prop_fields(feature_lst, with_oid), len_dict)
          /\ lyr_def' = lyr_def_of(fields_of(fs_prop_fields(feature_lst, with_oid), len_dict))
    /\ pc' = "existing"
    /\ UNCHANGED <<norm_vars, rec_vars, down_vars, run_vars, raw_dir, overwrite, error, raw_json_lst, feature_lst,
                   gis_vars, dict_lst, len_dict, n_derive, chunk_vars>>

\* a search that finds nothing
search_none(rem, name) == <<>>
\* gis.content.search(service_name)
search(rem, name) == LET Named(itm) == itm.name = name IN SelectSeq(rem, Named)
\* a delete_items that removes nothing
delete_none(rem, name) == rem
\* gis.content.delete_items(existing_lst)
delete_items(rem, name) == LET Other(itm) == itm.name # name IN SelectSeq(rem, Other)

\* cell 11: remove the existing service, or refuse to overwrite it
CheckExisting ==
    /\ pc = "existing"
    /\ LET existing_lst == search(remote, service_name)
       IN  IF Len(existing_lst) > 0 /\ overwrite
           THEN /\ remote' = delete_items(remote, service_name)
                /\ pc' = "create" /\ error' = error
           ELSE IF Len(existing_lst) > 0
           THEN /\ pc' = "error" /\ error' = "FileExistsError"
                /\ remote' = remote
           ELSE /\ pc' = "create" /\ error' = error /\ remote' = remote
    /\ UNCHANGED <<norm_vars, rec_vars, down_vars, run_vars, raw_dir, overwrite, raw_json_lst, feature_lst,
                   new_svc_itm, lyr, schema_vars, chunk_vars>>

\* cell 12: new_svc_itm = gis.content.create_service(service_name, ...)
CreateService ==
    /\ pc = "create"
    /\ remote' = Append(remote, [name |-> service_name, layers |-> <<>>])
    /\ new_svc_itm' = Len(remote) + 1
    /\ pc' = "define"
    /\ UNCHANGED <<norm_vars, rec_vars, down_vars, run_vars, raw_dir, overwrite, error, raw_json_lst, feature_lst,
                   lyr, schema_vars, chunk_vars>>

\* a cell 14 that sends the definition twice
AddToDefinitionTwice ==
    /\ pc = "define"
    /\ remote' = [remote EXCEPT ![new_svc_itm].layers =
                      @ \o <<[def |-> lyr_def, features |-> <<>>],
                             [def |-> lyr_def, features |-> <<>>]>>]
    /\ pc' = "lyr"
    /\ UNCHANGED <<norm_vars, rec_vars, down_vars, run_vars, raw_dir, overwrite, error, raw_json_lst, feature_lst,
                   new_svc_itm, lyr, schema_vars, chunk_vars>>

\* cell 14: flc.manager.add_to_definition({'layers': [lyr_def]})
AddToDefinition ==
    /\ pc = "define"
    /\ remote' = [remote EXCEPT ![new_svc_itm].layers =
                      Append(@, [def |-> lyr_def, features |-> <<>>])]
    /\ pc' = "lyr"
    /\ UNCHANGED <<norm_vars, rec_vars, down_vars, run_vars, raw_dir, overwrite, error, raw_json_lst, feature_lst,
                   new_svc_itm, lyr, schema_vars, chunk_vars>>

\* cell 15: lyr = new_svc_itm.layers[0]
GetLayer ==
    /\ pc = "lyr"
    /\ lyr' = new_svc_itm
    /\ pc' = "chunks"
    /\ UNCHANGED <<norm_vars, rec_vars, down_vars, run_vars, raw_dir, overwrite, error, raw_json_lst, feature_lst,
                   remote, new_svc_itm, schema_vars, chunk_vars>>

\* cell 16: chunk_size and upload_chunks; the notebook sets chunk_size = 200
MakeChunks ==
    /\ pc = "chunks"
    /\ \E size \in 1..MaxChunk :
          /\ chunk_size' = size
          /\ upload_chunks' = upload_chunks_of(feature_lst, size)
    /\ chnk' = 0
    /\ pc' = "upload"
    /\ UNCHANGED <<norm_vars, rec_vars, down_vars, run_vars, raw_dir, overwrite, error, raw_json_lst, feature_lst,
                   gis_vars, schema_vars>>

\* a loop that goes through the chunks from the last to the first
NextChunkFromEnd(chunks, n) == chunks[Len(chunks) - n]
\* for chnk in tqdm(upload_chunks): the chunk of the iteration after n iterations
NextChunk(chunks, n) == chunks[n + 1]

\* cell 17, one iteration: lyr.edit_features(adds=chnk)
Upload ==
    /\ pc = "upload"
    /\ chnk < Len(upload_chunks)
    /\ remote' = [remote EXCEPT ![lyr].layers[1].features =
                      @ \o NextChunk(upload_chunks, chnk)]
    /\ chnk' = chnk + 1
    /\ UNCHANGED <<norm_vars, rec_vars, down_vars, run_vars, raw_dir, overwrite, pc, error, raw_json_lst,
                   feature_lst, new_svc_itm, lyr, schema_vars, chunk_size,
                   upload_chunks>>

\* cell 17: the loop has gone through every chunk
UploadDone ==
    /\ pc = "upload"
    /\ chnk = Len(upload_chunks)
    /\ pc' = "done"
    /\ UNCHANGED <<norm_vars, rec_vars, down_vars, run_vars, raw_dir, overwrite, error, raw_json_lst, feature_lst,
                   gis_vars, schema_vars, chunk_vars>>

Next ==
    \/ ListFiles
    \/ DeriveLengths
    \/ BuildFeatures
    \/ BuildFields
    \/ CheckExisting
    \/ CreateService
    \/ AddToDefinition
    \/ GetLayer
    \/ MakeChunks
    \/ Upload
    \/ UploadDone

Spec == Init /\ [][Next]_vars

(***************************************************************************)
(* The publish notebook run again after a restart of the kernel.  The      *)
(* names of the notebook are lost, the destination keeps what it holds.    *)
(***************************************************************************)
\* the records the destination holds in the services called name
Stored(rem, name) ==
    LET ex == search(rem, name)
    IN  Concat([i \in 1..Len(ex) |->
                   Concat([l \in 1..Len(ex[i].layers) |-> ex[i].layers[l].features])])

InitRerun ==
    /\ NormIdle
    /\ RecIdle
    /\ DownIdle
    /\ \E dir \in RerunCollections, ow \in BOOLEAN,
          rem \in {<<>>, <<OldItem>>, <<OldItem, OldItem>>} :
          PipeStart(dir, ow, rem, "files")

Restart ==
    /\ run < MaxRuns
    /\ pc \notin {"idle", "files"}
    /\ \E dir \in RerunCollections, ow \in BOOLEAN :
          /\ raw_dir' = dir
          /\ overwrite' = ow
    /\ pc' = "files" /\ error' = ""
    /\ raw_json_lst' = <<>> /\ dict_lst' = <<>> /\ len_dict' = <<>>
    /\ feature_lst' = <<>> /\ fs_fields' = <<>> /\ fields' = <<>> /\ lyr_def' = <<>>
    /\ new_svc_itm' = 0 /\ lyr' = 0 /\ chunk_size' = 0 /\ upload_chunks' = <<>>
    /\ chnk' = 0 /\ n_derive' = 0
    /\ run' = run + 1
    /\ left_behind' = <<Len(Stored(remote, service_name)), Len(raw_dir)>>
    /\ UNCHANGED <<norm_vars, rec_vars, down_vars, remote>>

NextRerun ==
    \/ Next
    \/ Restart

SpecRerun == InitRerun /\ [][NextRerun]_vars

(***************************************************************************)
(* The download notebook: one cell that goes through the reach ids.        *)
(* A file of dir_raw_aw is "absent", "old" (there before the cell ran),    *)
(* "new" (written whole by the cell) or "partial" (created by open, not    *)
(* written whole).                                                         *)
(***************************************************************************)
\* for reach_id in range(1, max_range): the first id
FirstId == 1
\* a range that steps by 2
NextIdSkip(id) == id + 2
\* for reach_id in range(1, max_range): the id after id
NextId(id) == id + 1
\* for reach_id in range(1, max_range): the id is below the stop
InRange(id, stop) == id < stop

\* [int(re.search(...).group(1)) for pth in dir_raw_aw.glob('aw_*.json')]
FileIds(dir) == {id \in DOMAIN dir : dir[id] # "absent"}

\* a test that never finds the id
NeverExists(id, lst) == FALSE
\* if reach_id in existing_reach_id_lst
AlreadyExists(id, lst) == id \in lst

\* a test that also breaks when the count has reached the maximum
ReachesMax(count, maximum) == count >= maximum
\* if fail_count > max_fail
Exceeds(count, maximum) == count > maximum

\* the line the cell logs for a reach id
Logged(id, what) == [id |-> id, what |-> what]

InitDownload ==
    /\ NormIdle
    /\ RecIdle
    /\ PipeStart(<<>>, TRUE, <<>>, "idle")
    /\ dir_raw_aw \in [1..(MaxRange - 1) -> {"absent", "old"}]
    /\ existing_reach_id_lst = {} /\ reach_id = 0 /\ fail_count = 0
    /\ max_fail = 0 /\ max_range = 0 /\ dpc = "start" /\ d_log = <<>>

\* the cell up to the loop: the counters and the list of the ids on disk
StartLoop ==
    /\ dpc = "start"
    /\ fail_count' = 0
    /\ max_fail' = MaxFail
    /\ max_range' = MaxRange
    /\ existing_reach_id_lst' = FileIds(dir_raw_aw)
    /\ reach_id' = FirstId
    /\ dpc' = "loop"
    /\ UNCHANGED <<norm_vars, pipe_vars, rec_vars, dir_raw_aw, d_log>>

\* an iteration for an id whose file was there when the cell started
SkipExisting ==
    /\ dpc = "loop"
    /\ InRange(reach_id, max_range)
    /\ AlreadyExists(reach_id, existing_reach_id_lst)
    /\ d_log' = Append(d_log, Logged(reach_id, "exists"))
    /\ reach_id' = NextId(reach_id)
    /\ UNCHANGED <<norm_vars, pipe_vars, rec_vars, dir_raw_aw, existing_reach_id_lst,
                   fail_count, max_fail, max_range, dpc>>

\* an iteration whose try block runs to its end
Download ==
    /\ dpc = "loop"
    /\ InRange(reach_id, max_range)
    /\ ~AlreadyExists(reach_id, existing_reach_id_lst)
    /\ dir_raw_aw' = [dir_raw_aw EXCEPT ![reach_id] = "new"]
    /\ fail_count' = 0
    /\ d_log' = Append(d_log, Logged(reach_id, "downloaded"))
    /\ reach_id' = NextId(reach_id)
    /\ UNCHANGED <<norm_vars, pipe_vars, rec_vars, existing_reach_id_lst, max_fail,
                   max_range, dpc>>

\* the except block: count the failure, and break when the count exceeds max_fail
Except ==
    /\ fail_count' = fail_count + 1
    /\ d_log' = Append(d_log, Logged(reach_id, "failed"))
    /\ IF Exceeds(fail_count + 1, max_fail)
       THEN dpc' = "done" /\ reach_id' = reach_id
       ELSE dpc' = dpc /\ reach_id' = NextId(reach_id)
    /\ UNCHANGED <<norm_vars, pipe_vars, rec_vars, existing_reach_id_lst, max_fail,
                   max_range>>

\* an iteration where download_raw_json_from_aw raises
FetchFails ==
    /\ dpc = "loop"
    /\ InRange(reach_id, max_range)
    /\ ~AlreadyExists(reach_id, existing_reach_id_lst)
    /\ dir_raw_aw' = dir_raw_aw
    /\ Except

\* an iteration where json.dump raises after open(file_pth, 'x') has created
\* the file
WriteFails ==
    /\ dpc = "loop"
    /\ InRange(reach_id, max_range)
    /\ ~AlreadyExists(reach_id, existing_reach_id_lst)
    /\ dir_raw_aw' = [dir_raw_aw EXCEPT ![reach_id] = "partial"]
    /\ Except

\* the range has no further id
RangeExhausted ==
    /\ dpc = "loop"
    /\ ~InRange(reach_id, max_range)
    /\ dpc' = "done"
    /\ UNCHANGED <<norm_vars, pipe_vars, rec_vars, dir_raw_aw, existing_reach_id_lst,
                   reach_id, fail_count, max_fail, max_range, d_log>>

NextDownload ==
    \/ StartLoop
    \/ SkipExisting
    \/ Download
    \/ FetchFails
    \/ WriteFails
    \/ RangeExhausted

SpecDownload == InitDownload /\ [][NextDownload]_vars

\* the cell goes on as long as it has a step to take: every call it makes
\* returns or raises
SpecDownloadFair == SpecDownload /\ WF_vars(NextDownload)

(***************************************************************************)
(* Schema derivation on attribute mappings whose key sets may differ, and   *)
(* which may define a field named OBJECTID of their own.                   *)
(***************************************************************************)
RecFull(section) ==
    [reach_id |-> PyInt(42), river |-> PyStr("Test River"),
     section |-> PyStr(section), description |-> PyStr("Class III run.")]

\* a mapping whose source defines a field named OBJECTID
WithObjectId(rec, v) ==
    [k \in DOMAIN rec \cup {"OBJECTID"} |-> IF k = "OBJECTID" THEN v ELSE rec[k]]

RecAttrs ==
    {RecFull("Gore Run"), RecFull("Upper Box Canyon Run"),
     [RecFull("Gore Run") EXCEPT !.description = None],
     Without(RecFull("Gore Run"), "description"),
     Without(RecFull("Upper Box Canyon Run"), "section"),
     [k \in DOMAIN RecFull("Gore Run") \cup {"difficulty"} |->
         IF k = "difficulty" THEN PyStr("III-IV") ELSE RecFull("Gore Run")[k]],
     WithObjectId(RecFull("Gore Run"), PyStr("aw42")),
     WithObjectId(RecFull("Upper Box Canyon Run"), PyInt(7))}

InitRec ==
    /\ NormIdle
    /\ DownIdle
    /\ PipeStart(<<>>, TRUE, <<>>, "idle")
    /\ rec_lst \in SeqsUpTo(RecAttrs, MaxFiles)
    /\ rec_len_dict = <<>> /\ rec_fs_fields = <<>> /\ rec_fields = <<>>
    /\ rec_error = "" /\ rpc = "input"

\* cell 6 on the attribute mappings: DataFrame.from_records fills the keys a
\* row lacks with NaN, max() and dropna() go on, and nothing is raised
DeriveFromRecords ==
    /\ rpc = "input"
    /\ rec_len_dict' = len_dict_of([i \in 1..Len(rec_lst) |-> LenRow(rec_lst[i])])
    /\ rec_error' = ""
    /\ rpc' = "fields"
    /\ UNCHANGED <<norm_vars, pipe_vars, down_vars, rec_lst, rec_fs_fields, rec_fields>>

\* the features of the attribute mappings (the geometry plays no part in the
\* field list)
RecFeatures(recs) ==
    [i \in 1..Len(recs) |-> [attributes |-> recs[i], geometry |-> EmptyGeometry]]

\* cell 9 on the attribute mappings: fs_prop.fields, the comprehension that
\* drops the fields of type esriFieldTypeOID, and fields.append(oid_fld)
FieldsFromRecords ==
    /\ rpc = "fields"
    /\ \E with_oid \in BOOLEAN :
          /\ rec_fs_fields' =
                fs_prop_fields_after(fs_prop_fields(RecFeatures(rec_lst), with_oid),
                                     rec_len_dict)
          /\ rec_fields' =
                fields_of(fs_prop_fields(RecFeatures(rec_lst), with_oid), rec_len_dict)
    /\ rpc' = "done"
    /\ UNCHANGED <<norm_vars, pipe_vars, down_vars, rec_lst, rec_len_dict, rec_error>>

NextRec ==
    \/ DeriveFromRecords
    \/ FieldsFromRecords

SpecRec == InitRec /\ [][NextRec]_vars

(***************************************************************************)
(* Properties.                                                             *)
(***************************************************************************)
FieldsBuilt == fields # <<>>
Chunked == pc \in {"upload", "done"}
AllLayers ==
    UNION {{remote[s].layers[l] : l \in 1..Len(remote[s].layers)} : s \in 1..Len(remote)}

\* every string attribute of every feature has a field whose length holds it
StringsFit(flds, feats) ==
    \A i \in 1..Len(feats) : \A k \in DOMAIN feats[i].attributes :
        IsStr(feats[i].attributes[k]) =>
            \E j \in 1..Len(flds) :
                /\ flds[j].name = k
                /\ "length" \in DOMAIN flds[j]
                /\ flds[j].length >= Len(feats[i].attributes[k].v)

\* C1: once the schema is derived, the declared length of every string field
\* is at least the length of that field's value in every Reach of the
\* collection, and no record uploaded to a layer is longer than the layer's
\* declared length.
C1_DeclaredLengthHoldsEveryValue ==
    /\ FieldsBuilt => StringsFit(fields, feature_lst)
    /\ \A layer \in AllLayers : StringsFit(layer.def.fields, layer.features)

SectionLens(feats) == {Len(feats[i].attributes.section.v) : i \in 1..Len(feats)}

C1_Witness ==
    /\ pc = "done"
    /\ Len(feature_lst) >= 2
    /\ {8, 20} \subseteq SectionLens(feature_lst)
    /\ remote[lyr].layers[1].features = feature_lst

\* C2: the derived length of every string field is the ceiling of 1.1 times
\* the longest observed length of that field.
C2_LengthIsExactCeiling ==
    n_derive > 0 =>
        \A k \in DOMAIN len_dict : len_dict[k] = CeilExact11(ColumnMax(dict_lst, k))

\* C3: every length in the length table is at least 1, also when every
\* observed value of the field is the empty string.
C3_LengthAtLeastOne ==
    n_derive > 0 => \A k \in DOMAIN len_dict : len_dict[k] >= 1

Named(flds, name) == {j \in 1..Len(flds) : flds[j].name = name}

\* the field list holds one field named OBJECTID, and that one is neither
\* nullable nor editable
ObjectIdOnce(flds) ==
    /\ Cardinality(Named(flds, "OBJECTID")) = 1
    /\ \A j \in Named(flds, "OBJECTID") :
          /\ "nullable" \in DOMAIN flds[j] /\ flds[j].nullable = FALSE
          /\ "editable" \in DOMAIN flds[j] /\ flds[j].editable = FALSE

\* C4: the field list holds the OBJECTID field exactly once, non-nullable and
\* non-editable, for every collection, also one whose attribute mappings
\* define a field named OBJECTID themselves; the layer definition holds that
\* field list.
C4_ObjectIdExactlyOnce ==
    /\ rpc = "done" => ObjectIdOnce(rec_fields)
    /\ FieldsBuilt => ObjectIdOnce(fields) /\ lyr_def.fields = fields

\* C5: the chunks, concatenated in order, are the feature list: no record is
\* lost, duplicated or moved.
C5_ChunksConcatenateToRecords ==
    Chunked => Concat(upload_chunks) = feature_lst

C5_Witness ==
    /\ Chunked
    /\ Len(upload_chunks) >= 3
    /\ Len(upload_chunks[Len(upload_chunks)]) < chunk_size
    /\ \E i, j \in 1..Len(feature_lst) : feature_lst[i] # feature_lst[j]

CeilDiv(n, d) == (n + d - 1) \div d

\* C6: n records in chunks of chunk_size make ceil(n / chunk_size) chunks;
\* all but the last hold chunk_size records and the last holds between 1 and
\* chunk_size; no records, no chunk.
C6_ChunkCountAndSizes ==
    Chunked =>
        /\ Len(upload_chunks) = CeilDiv(Len(feature_lst), chunk_size)
        /\ \A i \in 1..Len(upload_chunks) :
              /\ i < Len(upload_chunks) => Len(upload_chunks[i]) = chunk_size
              /\ Len(upload_chunks[i]) >= 1
              /\ Len(upload_chunks[i]) <= chunk_size
        /\ Len(feature_lst) = 0 => upload_chunks = <<>>

\* 5 records in chunks of 2: sizes 2, 2, 1 (450 in chunks of 200: 200, 200, 50)
C6_Witness ==
    /\ Chunked
    /\ Len(feature_lst) = 5
    /\ chunk_size = 2
    /\ [i \in 1..Len(upload_chunks) |-> Len(upload_chunks[i])] = <<2, 2, 1>>

\* C7: the length table is derived once, from one row per file of the whole
\* collection, before the first chunk is uploaded.
C7_DerivedOnceBeforeUpload ==
    /\ n_derive <= 1
    /\ (Chunked \/ chnk > 0) =>
          /\ n_derive = 1
          /\ Len(dict_lst) = Len(raw_dir)
          /\ len_dict = len_dict_of(dict_lst)

C7_Witness ==
    /\ chnk > 0
    /\ Len(raw_dir) >= 2
    /\ remote[lyr].layers[1].features # <<>>

HasInfo(doc) == IsDict(json_info(doc))
Malformed == Raise("MalformedSourceDocument")

\* C8: normalising a document without the geometry block raises
\* MalformedSourceDocument and yields no Reach.
C8_NoGeometryRaisesMalformed ==
    (NormEnded /\ HasInfo(json_fl) /\ "geom" \notin DOMAIN json_info(json_fl).v)
        => reach = Malformed

\* C9: normalising a document whose info block or identifier is absent or
\* wrongly shaped raises MalformedSourceDocument.
C9_NoInfoOrIdRaisesMalformed ==
    (NormEnded /\ json_fl \in NormDocs
     /\ (~HasInfo(json_fl) \/ Get(json_info(json_fl), "id").t # "int"))
        => reach = Malformed

AttrOf(key) ==
    CASE key = "id" -> "reach_id"
      [] key = "river" -> "river"
      [] key = "section" -> "section"
      [] key = "description_md" -> "description"

\* C10: every document that has an info block normalises to a Reach with the
\* same attribute keys, whichever optional fields it has: a field the document
\* has keeps its value, a field it lacks is in the mapping as None.  Two
\* documents that differ only in an optional field so give the same keys.
C10_OptionalFieldKeepsKeySet ==
    (NormEnded /\ HasInfo(json_fl)) =>
        /\ IsReach(reach)
        /\ DOMAIN attributes(reach) = {AttrOf(k) : k \in {"id"} \cup OptionalKeys}
        /\ \A k \in OptionalKeys :
              attributes(reach)[AttrOf(k)] =
                  IF k \in DOMAIN json_info(json_fl).v
                  THEN json_info(json_fl).v[k] ELSE None

C10_Witness ==
    /\ npc = "done"
    /\ IsReach(reach)
    /\ "description_md" \notin DOMAIN json_info(json_fl).v
    /\ "river" \in DOMAIN json_info(json_fl).v
    /\ attributes(reach).description = None
    /\ attributes(reach).river = PyStr("Test River")

\* the Reaches of a collection do not all have the same attribute keys
Divergent(recs) == \E i, j \in 1..Len(recs) : DOMAIN recs[i] # DOMAIN recs[j]

\* C11: when the attribute key sets of the collection differ, deriving the
\* schema fails with SchemaInconsistency, and no length table is produced
\* from a padded record.
C11_DivergentKeysRaise ==
    (rpc = "done" /\ Divergent(rec_lst)) =>
        rec_error = "SchemaInconsistency" /\ rec_len_dict = <<>>

\* C13: in a run of the notebook that gets to its uploads, also one that
\* follows a run interrupted part-way through its uploads, the destination
\* holds one service of the name, whose records are the batches submitted so
\* far and nothing from an earlier run; when the run is done they are the
\* records of the run's collection, one per Reach.
C13_RerunReplaces ==
    Chunked =>
        /\ Len(search(remote, service_name)) = 1
        /\ Stored(remote, service_name) = Concat(SubSeq(upload_chunks, 1, chnk))
        /\ pc = "done" =>
              /\ Len(Stored(remote, service_name)) = Len(raw_dir)
              /\ \A i \in 1..Len(raw_dir) :
                    Stored(remote, service_name)[i] = line_feature(from_aw_json(raw_dir[i]))

C13_Witness ==
    /\ pc = "done" /\ run = 2
    /\ left_behind[1] > 0 /\ left_behind[1] < left_behind[2]
    /\ Len(raw_dir) = 2
    /\ Stored(remote, service_name) = feature_lst

\* the layer of the run holds the first n chunks, each once, in chunk order
SubmittedInOrder(n) ==
    remote[lyr].layers[1].features = Concat(SubSeq(upload_chunks, 1, n))

\* C14: the batches are submitted one at a time in batch order: after n
\* submissions the layer holds batches 1..n, each once; a step submits at
\* most one batch, the one after the last submitted; and the loop ends when
\* every batch has been submitted.
C14_SequentialOnce ==
    /\ [](Chunked => /\ chnk \in 0..Len(upload_chunks)
                      /\ SubmittedInOrder(chnk)
                      /\ pc = "done" => chnk = Len(upload_chunks))
    /\ [][(Chunked /\ chnk' # chnk) =>
              /\ chnk' = chnk + 1
              /\ remote'[lyr].layers[1].features =
                    remote[lyr].layers[1].features \o upload_chunks[chnk']
              /\ UNCHANGED upload_chunks]_vars

C14_Witness ==
    /\ pc = "upload" /\ chnk = 2 /\ Len(upload_chunks) >= 3
    /\ upload_chunks[1] # upload_chunks[2]
    /\ SubmittedInOrder(2)

\* the geometry block of the document names a reference other than EPSG:4326
OtherReference(doc) ==
    LET geom == Get(json_info(doc), "geom")
    IN  /\ IsDict(geom)
        /\ "crs" \in DOMAIN geom.v
        /\ geom.v.crs # PyStr("EPSG:4326")

\* C15: normalising a document whose geometry is in another reference than
\* EPSG:4326 fails with UnsupportedSpatialReference, and gives no Reach whose
\* geometry is tagged EPSG:4326.
C15_OtherReferenceRaises ==
    (NormEnded /\ OtherReference(json_fl)) =>
        reach = Raise("UnsupportedSpatialReference")

FeaturesBuilt ==
    pc \in {"fields", "existing", "create", "define", "lyr", "chunks", "upload", "done"}

\* C16: the feature list has one record per document of the collection, in
\* the collection's order, and the record of a document holds the attribute
\* mapping and the polyline of the Reach normalised from that document.
C16_OneRecordPerReachInOrder ==
    FeaturesBuilt =>
        /\ Len(feature_lst) = Len(raw_dir)
        /\ \A i \in 1..Len(raw_dir) :
              /\ feature_lst[i].attributes = attributes(from_aw_json(raw_dir[i]))
              /\ feature_lst[i].geometry = Geometry(Get(json_info(raw_dir[i]), "geom"))

C16_Witness ==
    /\ pc = "done"
    /\ Len(raw_dir) = 3
    /\ feature_lst[1] # feature_lst[2] /\ feature_lst[2] # feature_lst[3]
    /\ feature_lst[1].attributes.section = PyStr("Gore Run")
    /\ feature_lst[1].geometry.paths = <<LineString.v.coordinates>>

\* identifier 42, river "Test River", section "Lower Gorge", and the line
\* (-105.0, 39.0), (-105.1, 39.1)
ExampleDoc == Doc(PyDict(InfoFull(PyInt(42), "Lower Gorge")))

\* C17: the Reach normalised from the example document exports reach_id 42,
\* river "Test River" and section "Lower Gorge" with the strings unchanged,
\* and a polyline of one path with the two vertices (-105.0, 39.0) and
\* (-105.1, 39.1) in that order, tagged EPSG:4326.
C17_ExampleReachExport ==
    (NormEnded /\ json_fl = ExampleDoc) =>
        /\ IsReach(reach)
        /\ line_feature(reach).attributes.reach_id = PyInt(42)
        /\ line_feature(reach).attributes.river = PyStr("Test River")
        /\ line_feature(reach).attributes.section = PyStr("Lower Gorge")
        /\ line_feature(reach).geometry.paths = <<<< <<-1050, 390>>, <<-1051, 391>> >>>>
        /\ line_feature(reach).geometry.wkid = 4326

C17_Witness ==
    /\ npc = "done" /\ json_fl = ExampleDoc /\ aw_json = ExampleDoc
    /\ IsReach(reach)
    /\ Len(reach.geometry.paths) = 1 /\ Len(reach.geometry.paths[1]) = 2
    /\ nb.esri_json.paths = reach.geometry.paths

\* the attribute mapping of the Reach of the i-th document of the collection
ReachAttrs(i) == attributes(from_aw_json(raw_dir[i]))
\* the lengths of the string values field k has in the collection
StringLens(k) ==
    {Len(ReachAttrs(i)[k].v) : i \in {j \in 1..Len(raw_dir) : IsStr(ReachAttrs(j)[k])}}
AttrKeys == {AttrOrder[i] : i \in 1..Len(AttrOrder)}

\* C18: the length table has an entry for exactly the fields that have a
\* string value in at least one Reach, the entry is computed from the longest
\* of the field's string values alone, and a field of the schema has a length
\* exactly when the table has an entry for it.
C18_EntryIffSomeString ==
    n_derive > 0 =>
        /\ DOMAIN len_dict = {k \in AttrKeys : StringLens(k) # {}}
        /\ \A k \in DOMAIN len_dict : len_dict[k] = CeilMul11(Max(StringLens(k)))
        /\ FieldsBuilt =>
              \A j \in 1..Len(fields) :
                  /\ ("length" \in DOMAIN fields[j]) <=> (fields[j].name \in DOMAIN len_dict)
                  /\ "length" \in DOMAIN fields[j] => fields[j].length = len_dict[fields[j].name]

C18_Witness ==
    /\ n_derive > 0 /\ FieldsBuilt
    /\ \E i, j \in 1..Len(raw_dir) :
          /\ ReachAttrs(i).description = None
          /\ IsStr(ReachAttrs(j).description)
    /\ "description" \in DOMAIN len_dict
    /\ "reach_id" \notin DOMAIN len_dict
    /\ \E j \in 1..Len(fields) : fields[j].name = "reach_id" /\ "length" \notin DOMAIN fields[j]

FieldNames(flds) == [j \in 1..Len(flds) |-> flds[j].name]
NotOidType(fld) == fld.type # "esriFieldTypeOID"

\* C19: in the field list, and so in the layer definition, the explicit
\* OBJECTID definition is the last element, no other field is of type
\* esriFieldTypeOID, and the fields before it are the data-inferred fields of
\* another type in their inferred order.
C19_ObjectIdLastOrderKept ==
    FieldsBuilt =>
        /\ fields[Len(fields)] = oid_fld
        /\ \A j \in 1..(Len(fields) - 1) : NotOidType(fields[j])
        /\ FieldNames(SubSeq(fields, 1, Len(fields) - 1))
              = FieldNames(SelectSeq(fs_fields, NotOidType))
        /\ lyr_def.fields = fields

C19_Witness ==
    /\ FieldsBuilt
    /\ Len(fs_fields) = 5 /\ fs_fields[1].type = "esriFieldTypeOID"
    /\ Len(fields) = 5
    /\ FieldNames(fields) = <<"reach_id", "river", "section", "description", "OBJECTID">>

\* the positions of the services called service_name in the destination
NamedItems(rem) == {i \in 1..Len(rem) : rem[i].name = service_name}

\* C20: when a service of the name exists and overwrite is false, the cell
\* raises FileExistsError and leaves the destination as it is: the run has
\* created no service, defined no layer and uploaded nothing, and does nothing
\* after the error.  When overwrite is true, the cell removes every service of
\* the name, so none is left when the new service is created.
C20_ExistsRefusedOrReplaced ==
    /\ [](error = "FileExistsError" =>
              /\ pc = "error" /\ ~overwrite /\ NamedItems(remote) # {}
              /\ new_svc_itm = 0 /\ lyr = 0 /\ upload_chunks = <<>> /\ chnk = 0)
    /\ [](pc = "create" => NamedItems(remote) = {})
    /\ [][(pc = "existing" /\ NamedItems(remote) # {} /\ run' = run) =>
              IF overwrite
              THEN pc' = "create" /\ error' = error /\ NamedItems(remote') = {}
              ELSE pc' = "error" /\ error' = "FileExistsError" /\ remote' = remote]_vars
    /\ [][pc = "error" => remote' = remote]_vars

C20_Witness ==
    /\ pc = "error" /\ error = "FileExistsError" /\ ~overwrite
    /\ Len(remote) = 2 /\ remote = <<OldItem, OldItem>>
    /\ Len(feature_lst) = 2 /\ FieldsBuilt

\* the cells of the destination that may follow the cell at position p
DestinationSuccessors(p) ==
    CASE p = "existing" -> {"create", "error"}
      [] p = "create" -> {"define"}
      [] p = "define" -> {"lyr"}
      [] p = "lyr" -> {"chunks"}
      [] p = "chunks" -> {"upload"}
      [] p = "upload" -> {"upload", "done"}
      [] OTHER -> {}

\* the layers of the service the run has created
NewLayers == remote[new_svc_itm].layers

\* C21: within a run the destination steps follow one another as delete,
\* create, add the definition, upload: no service of the name is left when
\* the service is created, the created service has no layer until the
\* definition is added, from then on it has exactly one layer, defined by the
\* complete field list with its lengths and the OBJECTID field, that layer is
\* empty until the upload loop, and records are only added in the loop.
C21_DestinationStepOrder ==
    /\ [](pc = "create" => NamedItems(remote) = {} /\ new_svc_itm = 0)
    /\ [](pc = "define" => NewLayers = <<>>)
    /\ [](pc \in {"lyr", "chunks", "upload", "done"} =>
              /\ Len(NewLayers) = 1
              /\ NewLayers[1].def = lyr_def_of(fields)
              /\ fields[Len(fields)] = oid_fld
              /\ \A k \in DOMAIN len_dict : feature_lst # <<>> =>
                    \E j \in 1..Len(fields) :
                        fields[j].name = k /\ fields[j].length = len_dict[k])
    /\ [](pc \in {"lyr", "chunks"} => NewLayers[1].features = <<>>)
    /\ [][(pc \in {"existing", "create", "define", "lyr", "chunks", "upload"}
            /\ run' = run) => pc' \in DestinationSuccessors(pc)]_vars
    /\ [][(run' = run /\ Stored(remote', service_name) # Stored(remote, service_name)) =>
              \/ pc = "existing" /\ overwrite
              \/ pc = "upload" /\ Len(NewLayers) = 1]_vars

C21_Witness ==
    /\ pc = "done" /\ run = 2 /\ left_behind[1] > 0
    /\ Len(remote) = 1 /\ Len(NewLayers) = 1
    /\ NewLayers[1].features = feature_lst /\ Len(feature_lst) = 2
    /\ Len(upload_chunks) = 2

RECURSIVE FailsSinceSuccess(_)
\* the failed attempts logged after the last successful download; the ids
\* gone through because their file exists are passed over
FailsSinceSuccess(log) ==
    IF log = <<>> THEN 0
    ELSE LET last == log[Len(log)]
             before == SubSeq(log, 1, Len(log) - 1)
         IN  IF last.what = "downloaded" THEN 0
             ELSE IF last.what = "failed" THEN FailsSinceSuccess(before) + 1
             ELSE FailsSinceSuccess(before)

LoopStarted == dpc \in {"loop", "done"}
\* the loop was left by its break: the range still had the id
Broke == dpc = "done" /\ InRange(reach_id, max_range)

\* C22: fail_count is the number of failed attempts since the last
\* successful download, ids skipped as existing not counted; the loop goes on
\* while fail_count is at most max_fail and breaks at the failure that makes
\* it max_fail + 1.
C22_FailCountAndBreak ==
    LoopStarted =>
        /\ fail_count = FailsSinceSuccess(d_log)
        /\ dpc = "loop" => fail_count <= max_fail
        /\ Broke => /\ fail_count = max_fail + 1
                    /\ d_log[Len(d_log)] = Logged(reach_id, "failed")
        /\ (dpc = "done" /\ ~Broke) => fail_count <= max_fail

C22_Witness ==
    /\ Broke
    /\ fail_count = max_fail + 1
    /\ \E i, j, k \in 1..Len(d_log) :
          /\ i < j /\ j < k
          /\ d_log[i].what = "failed" /\ d_log[j].what = "exists"
          /\ d_log[k].what = "failed"

\* C23: a file that was in dir_raw_aw when the cell started stays as it was
\* in every step, neither deleted nor written again, and the only line the
\* loop logs for its id is the one of the branch that makes no attempt.
C23_ExistingFileUntouched ==
    [][\A id \in DOMAIN dir_raw_aw :
          dir_raw_aw[id] = "old" =>
              /\ dir_raw_aw'[id] = "old"
              /\ (d_log' # d_log /\ d_log'[Len(d_log')].id = id) =>
                    d_log'[Len(d_log')].what = "exists"]_vars

C23_Witness ==
    /\ dpc = "done"
    /\ \E i, j \in 1..Len(d_log) :
          /\ d_log[i].what = "exists"
          /\ dir_raw_aw[d_log[i].id] = "old"
          /\ d_log[j].what = "downloaded"
          /\ dir_raw_aw[d_log[j].id] = "new"

\* the ids the loop has logged with the line what
LoggedAs(what) == {d_log[i].id : i \in {j \in 1..Len(d_log) : d_log[j].what = what}}

\* C24: no file exists for an id whose attempt failed, and a file is present
\* only if it was there when the cell started or the attempt for its id ran
\* to its end.
C24_NoFileAfterFailure ==
    LoopStarted =>
        /\ \A id \in LoggedAs("failed") : dir_raw_aw[id] = "absent"
        /\ \A id \in FileIds(dir_raw_aw) :
              id \in existing_reach_id_lst \/ id \in LoggedAs("downloaded")

\* C25: the loop ends; it goes through the ids 1, 2, 3, ... once each in
\* that order, and when it has ended either every id below max_range has
\* been gone through or the last attempt made fail_count exceed max_fail.
C25_LoopTerminates ==
    /\ <>(dpc = "done")
    /\ [](\A i \in 1..Len(d_log) : d_log[i].id = i)
    /\ [](LoopStarted => reach_id \in 1..max_range /\ Len(d_log) < max_range)
    /\ [](dpc = "done" =>
              \/ reach_id = max_range /\ Len(d_log) = max_range - 1
              \/ /\ reach_id < max_range /\ Len(d_log) = reach_id
                 /\ fail_count > max_fail)

C25_Witness ==
    /\ dpc = "done"
    /\ reach_id = max_range /\ Len(d_log) = max_range - 1
    /\ {"exists", "downloaded", "failed"} \subseteq {d_log[i].what : i \in 1..Len(d_log)}
====
